---- MODULE Spec2Model ----
(***************************************************************************)
(* Model of the AniList -> HiAnime identity resolver                       *)
(* (src/src/utils/anilist.service.js) and of the request handlers that     *)
(* wrap it with a cache (src/src/controllers/anilist.controller.js).       *)
(*                                                                         *)
(* Strings are sequences of one-character strings, so that the regular     *)
(* expression, the href parsing, the comma/colon stripping and the bigram  *)
(* similarity are computed character by character as the code does.        *)
(* Optional values (null / undefined in the code) are records              *)
(* [some, val].  Similarity scores are integers in hundredths (0..1000),   *)
(* the value Number(x.toFixed(2)) * 100.                                   *)
(*                                                                         *)
(* The service file holds two definitions of mapAnilistToHiAnimeId (lines  *)
(* 64-138 and lines 240-288).  The variable `variant` says which one a     *)
(* behaviour runs: "v1" or "v2".                                           *)
(***************************************************************************)
EXTENDS Integers, Sequences, FiniteSets, TLC

\* Largest number of entries a search response holds.
MaxResults == 3

\* The longest search page two concurrent resolutions are run over.
MaxResultsTwice == 2

\* The longest episode page of the specification of the episode lister.
MaxEpisodes == 3

\* The step of the clock, in seconds: time passes in steps of TickLen.
TickLen == 1800

\* ------------------------------------------------------------------------
\* Optional values and strings
\* ------------------------------------------------------------------------

None == [some |-> FALSE, val |-> <<>>]

Some(s) == [some |-> TRUE, val |-> s]

\* JavaScript truthiness of an optional string: null, undefined and "" are falsy.
Truthy(o) == o.some /\ o.val # <<>>

\* a || b on optional strings.
OrElse(a, b) == IF Truthy(a) THEN a ELSE b

Digits == {"0", "1", "2", "3", "4", "5", "6", "7", "8", "9"}

\* The white space of \s / \S that occurs in the modelled titles.
WhiteSpace == {" "}

\* String.prototype.toLowerCase on the letters that occur in the modelled titles.
LowerChar(c) ==
  CASE c = "E" -> "e"
    [] c = "S" -> "s"
    [] c = "R" -> "r"
    [] OTHER -> c

ToLower(s) == [i \in 1..Len(s) |-> LowerChar(s[i])]

\* title.replace(/[\,\:]/g, '')
StripCommaColon(s) == SelectSeq(s, LAMBDA c : c \notin {",", ":"})

\* ------------------------------------------------------------------------
\* The season pattern /\Season(.+?)\d/
\* \S is the class "not white space", so the pattern is: one non-blank
\* character, the letters "eason", one or more characters, one digit.
\* ------------------------------------------------------------------------

Eason == <<"e", "a", "s", "o", "n">>

SeasonMatch(s) ==
  \E i \in 1..Len(s) :
    /\ s[i] \notin WhiteSpace
    /\ i + 5 <= Len(s)
    /\ SubSeq(s, i + 1, i + 5) = Eason
    /\ \E j \in (i + 7)..Len(s) : s[j] \in Digits

\* ------------------------------------------------------------------------
\* string-similarity-js, as called at line 92: match(a, b) with the default
\* substring length 2, case-insensitive.
\* ------------------------------------------------------------------------

Bigrams(s) == [i \in 1..(Len(s) - 1) |-> <<s[i], s[i + 1]>>]

\* s without its first occurrence of x.
RECURSIVE RemoveFirst(_, _)
RemoveFirst(s, x) ==
  IF s = <<>> THEN <<>>
  ELSE IF Head(s) = x THEN Tail(s)
  ELSE <<Head(s)>> \o RemoveFirst(Tail(s), x)

Contains(s, x) == \E i \in 1..Len(s) : s[i] = x

\* The library's loop: every bigram of b that is still available among the
\* bigrams of a counts one match and uses that bigram up.
RECURSIVE CountMatches(_, _)
CountMatches(avail, bs) ==
  IF bs = <<>> THEN 0
  ELSE IF Contains(avail, Head(bs))
       THEN 1 + CountMatches(RemoveFirst(avail, Head(bs)), Tail(bs))
       ELSE CountMatches(avail, Tail(bs))

\* Number((match(a, b) * 10).toFixed(2)), in hundredths, rounding half up.
\* The quotient 2m/d lies exactly on a half hundredth only when 32 divides d,
\* which the modelled titles (d < 32) never reach, so the floating-point
\* value and the exact one round alike.
Score100(a, b) ==
  LET la == ToLower(a)
      lb == ToLower(b)
      m  == CountMatches(Bigrams(la), Bigrams(lb))
      d  == Len(la) + Len(lb) - 2
  IN IF Len(la) < 2 \/ Len(lb) < 2 THEN 0
     ELSE (4000 * m + d) \div (2 * d)

\* The scoring expression of lines 91-93: only the candidate title is stripped.
Similarity(title, searchTitle) == Score100(StripCommaColon(title), searchTitle)

\* ------------------------------------------------------------------------
\* href parsing of line 90:
\*   $(el).attr('href')?.split('/').pop()?.split('?')[0] || ''
\* ------------------------------------------------------------------------

RECURSIVE LastSegment(_)
LastSegment(s) ==
  IF ~Contains(s, "/") THEN s
  ELSE LastSegment(Tail(s))

RECURSIVE BeforeQuery(_)
BeforeQuery(s) ==
  IF s = <<>> \/ Head(s) = "?" THEN <<>>
  ELSE <<Head(s)>> \o BeforeQuery(Tail(s))

ParseId(href) ==
  IF ~href.some THEN <<>>
  ELSE BeforeQuery(LastSegment(href.val))

\* ------------------------------------------------------------------------
\* Candidates: parsing, ranking, season disambiguation
\* ------------------------------------------------------------------------

\* Lines 87-95: one candidate {id, title, similarity} per search result, in
\* result order.  Nothing is filtered: an unparseable href gives the id ''.
ParseResults(res, st) ==
  [i \in 1..Len(res) |->
     [id         |-> ParseId(res[i].href),
      title      |-> res[i].title,
      similarity |-> Similarity(res[i].title, st)]]

\* Insertion in front of the first element that is not smaller: equal scores
\* change their order.
RECURSIVE InsertUnstable(_, _)
InsertUnstable(sorted, c) ==
  IF sorted = <<>> THEN <<c>>
  ELSE IF Head(sorted).similarity > c.similarity
       THEN <<Head(sorted)>> \o InsertUnstable(Tail(sorted), c)
       ELSE <<c>> \o sorted

\* Insertion behind every element whose score is at least c's.
RECURSIVE InsertDesc(_, _)
InsertDesc(sorted, c) ==
  IF sorted = <<>> THEN <<c>>
  ELSE IF Head(sorted).similarity >= c.similarity
       THEN <<Head(sorted)>> \o InsertDesc(Tail(sorted), c)
       ELSE <<c>> \o sorted

\* Line 98: similarTitles.sort((a, b) => b.similarity - a.similarity).
\* Array.prototype.sort is stable; the comparator orders by descending score.
RECURSIVE SortBySimilarity(_)
SortBySimilarity(cands) ==
  IF cands = <<>> THEN <<>>
  ELSE InsertDesc(SortBySimilarity(SubSeq(cands, 1, Len(cands) - 1)),
                  cands[Len(cands)])

\* The condition of lines 114-117 with only its first disjunct.
SeasonAgreesBothOnly(st, topTitle) == SeasonMatch(st) /\ SeasonMatch(topTitle)

\* Lines 114-117 and 276-279: both match the season pattern, or neither does.
SeasonAgrees(st, topTitle) ==
  \/ (SeasonMatch(st) /\ SeasonMatch(topTitle))
  \/ (~SeasonMatch(st) /\ ~SeasonMatch(topTitle))

\* Index in the ranked list of the candidate whose id the resolver goes on
\* with.  v1 (lines 113-121): similarTitles[1] || similarTitles[0], an object
\* and so truthy whenever it exists.  v2 (lines 276-283):
\* similarTitles[1]?.id || similarTitles[0].id, which takes the second
\* candidate only when its id is a non-empty string.
SelectIndex(v, st, cands) ==
  IF SeasonAgrees(st, cands[1].title) THEN 1
  ELSE IF v = "v1"
       THEN (IF Len(cands) >= 2 THEN 2 ELSE 1)
       ELSE (IF Len(cands) >= 2 /\ cands[2].id # <<>> THEN 2 ELSE 1)

\* Results of one resolution, as seen inside the try block.
Ok(id) == [ok |-> TRUE, id |-> id, kind |-> "none"]

Fail(kind) == [ok |-> FALSE, id |-> <<>>, kind |-> kind]

NoResult == [ok |-> FALSE, id |-> <<>>, kind |-> "pending"]

\* An error object: its constructor and its message, the message kept as the
\* sequence of its parts.
NoError == [name |-> "", message |-> <<>>]

\* What the search request rejects with.
TransportError == [name |-> "AxiosError", message |-> <<"Request failed">>]

\* The catch block of fetchAnilistInfo (lines 53-56): whatever the request
\* rejected with, a new Error with a fixed message is thrown.
FetchAnilistError(e) ==
  [name |-> "Error", message |-> <<"Failed to fetch anime information from AniList">>]

\* The error raised inside the try block of mapAnilistToHiAnimeId for each
\* way it fails (lines 67, 70, 77, 83, 93, 104, 124).
Raised(kind) ==
  CASE kind = "FetchFailed"  -> FetchAnilistError(TransportError)
    [] kind = "NotFound"     -> [name |-> "Error", message |-> <<"not found in AniList database">>]
    [] kind = "NoTitle"      -> [name |-> "Error", message |-> <<"No valid title found">>]
    [] kind = "SearchFailed" -> TransportError
    [] kind = "TypeError"    -> [name |-> "TypeError", message |-> <<"Cannot read properties of null">>]
    [] kind = "NoMatch"      -> [name |-> "Error", message |-> <<"No matches found on HiAnime">>]
    [] kind = "InvalidMatch" -> [name |-> "Error", message |-> <<"Failed to select a valid match">>]

\* The catch blocks of lines 130-137 (v1) and 284-287 (v2): a new Error is
\* thrown; v1 puts the message of the caught error behind its own, v2 drops
\* it.
Rethrown(v, e) ==
  [name |-> "Error",
   message |-> IF v = "v1" THEN <<"Failed to map AniList ID to HiAnime ID">> \o e.message
               ELSE <<"Failed to map AniList ID to HiAnime ID">>]

\* Lines 122-129 (v1 validates the selected id) and 280-282 (v2 returns it).
Selected(v, c) ==
  IF v = "v1" /\ c.id = <<>> THEN Fail("InvalidMatch") ELSE Ok(c.id)

\* ------------------------------------------------------------------------
\* The upstream world: titles, the metadata record, the search results
\* ------------------------------------------------------------------------

TEx == <<"E", "x">>

TExSeason2 == <<"E", "x", " ", "S", "e", "a", "s", "o", "n", " ", "2">>

TEx2ndSeason == <<"E", "x", " ", "2", "n", "d", " ", "S", "e", "a", "s", "o", "n">>

TExColonSeason2 == <<"E", "x", ":", " ", "S", "e", "a", "s", "o", "n", " ", "2">>

\* What the metadata provider holds for the canonical id: no record, or a
\* record whose english and romaji titles are null, empty or a title.
EnglishTitles == {None, Some(<<>>), Some(TEx), Some(TExSeason2)}

RomajiTitles == {None, Some(<<>>), Some(TExColonSeason2)}

NoMedia == [found |-> FALSE, english |-> None, romaji |-> None]

Medias ==
  {NoMedia} \cup
  {[found |-> TRUE, english |-> e, romaji |-> ro] :
     e \in EnglishTitles, ro \in RomajiTitles}

\* The anchors a search page can hold: text and href attribute.  Two of them
\* have no parseable id: one has no href, one has an href ending in "/".
Entries ==
  {[title |-> TEx,             href |-> Some(<<"/", "e", "x", "-", "1">>)],
   [title |-> TExSeason2,      href |-> Some(<<"/", "w", "/", "s", "2", "?", "r", "=", "s">>)],
   [title |-> TEx2ndSeason,    href |-> Some(<<"/", "e", "x", "-", "3">>)],
   [title |-> TExColonSeason2, href |-> Some(<<"/", "e", "x", "-", "4">>)],
   [title |-> TEx,             href |-> None],
   [title |-> TExSeason2,      href |-> Some(<<"/", "s", "2", "b", "/">>)]}

RECURSIVE SeqsUpTo(_, _)
SeqsUpTo(S, n) ==
  IF n = 0 THEN {<<>>}
  ELSE LET shorter == SeqsUpTo(S, n - 1)
       IN shorter \cup {Append(q, x) : q \in {t \in shorter : Len(t) = n - 1}, x \in S}

ResultLists == SeqsUpTo(Entries, MaxResults)

Reqs == {"r1", "r2"}

\* ------------------------------------------------------------------------
\* Requests, cache keys, the episode page, cache entries
\* ------------------------------------------------------------------------

DigitValue(c) ==
  CASE c = "0" -> 0 [] c = "1" -> 1 [] c = "2" -> 2 [] c = "3" -> 3
    [] c = "4" -> 4 [] c = "5" -> 5 [] c = "6" -> 6 [] c = "7" -> 7
    [] c = "8" -> 8 [] c = "9" -> 9

RECURSIVE Decimal(_)
Decimal(s) ==
  IF s = <<>> THEN 0
  ELSE 10 * Decimal(SubSeq(s, 1, Len(s) - 1)) + DigitValue(s[Len(s)])

NaN == [nan |-> TRUE, n |-> 0]

\* Number(x) for an optional string of digits and letters: undefined and
\* anything with a non-digit give NaN, "" gives 0, digits their value.
ToNumber(o) ==
  IF ~o.some THEN NaN
  ELSE IF \A i \in 1..Len(o.val) : o.val[i] \in Digits
       THEN [nan |-> FALSE, n |-> Decimal(o.val)]
       ELSE NaN

\* !x || isNaN(Number(x)), the parameter check of lines 88, 170, 178.
NotANumber(x) == x = <<>> \/ ToNumber(Some(x)).nan

KInfo == <<"a", "n", "i", "l", "i", "s", "t", "_", "i", "n", "f", "o", "_">>

KServers == <<"a", "n", "i", "l", "i", "s", "t", "_", "s", "e", "r", "v", "e", "r", "s", "_">>

KSources == <<"a", "n", "i", "l", "i", "s", "t", "_", "s", "o", "u", "r", "c", "e", "s", "_">>

Sub == <<"s", "u", "b">>

\* const { server, type = 'sub' } = req.query (line 272).
TypeOf(p) == IF p.type.some THEN p.type.val ELSE Sub

\* The cache keys of lines 84, 166 and 300.
CacheKey(h, p) ==
  CASE h = "info"    -> KInfo \o p.id
    [] h = "servers" -> KServers \o p.id \o <<"_">> \o p.episodeNumber
    [] h = "sources" -> KSources \o p.id \o <<"_">> \o p.episodeNumber
                          \o <<"_">> \o p.server.val \o <<"_">> \o TypeOf(p)
    [] OTHER         -> <<>>

\* The ttl arguments of setCachedData (lines 143, 249, 378).
TtlInfo == 3600

TtlServers == 3600

TtlSources == 1800

\* Every handler writing with the ttl of the info handler.
TtlSameForAll(h) == TtlInfo

Ttl(h) ==
  CASE h = "info" -> TtlInfo
    [] h = "servers" -> TtlServers
    [] OTHER -> TtlSources

Req(h, id, ep, server, type) ==
  [handler |-> h,
   params  |-> [id |-> id, episodeNumber |-> ep, server |-> server, type |-> type]]

\* The requests a behaviour serves: each handler with valid and invalid
\* parameters, two spellings of the same id, and two server/type pairs that
\* hold the separator.
Requests ==
  {Req("test", <<"1">>, <<>>, None, None),
   Req("test", <<"x">>, <<>>, None, None),
   Req("info", <<"1">>, <<>>, None, None),
   Req("info", <<"0", "1">>, <<>>, None, None),
   Req("info", <<"x">>, <<>>, None, None),
   Req("servers", <<"1">>, <<"1">>, None, None),
   Req("servers", <<"1">>, <<"9">>, None, None),
   Req("servers", <<"1">>, <<"x">>, None, None),
   Req("sources", <<"1">>, <<"2">>, None, None),
   Req("sources", <<"1">>, <<"2">>, Some(<<"h", "d">>), None),
   Req("sources", <<"1">>, <<"2">>, Some(<<"a", "_", "b">>), Some(<<"c">>)),
   Req("sources", <<"1">>, <<"2">>, Some(<<"a">>), Some(<<"b", "_", "c">>))}

\* The pairs of requests served together: every request with itself, and
\* pairs that differ in the handler, in the spelling of the id, or in how
\* server and type share the separator.
RequestPairs ==
  {<<q, q>> : q \in Requests} \cup
  {<<Req("info", <<"1">>, <<>>, None, None), Req("info", <<"0", "1">>, <<>>, None, None)>>,
   <<Req("info", <<"1">>, <<>>, None, None), Req("servers", <<"1">>, <<"1">>, None, None)>>,
   <<Req("test", <<"1">>, <<>>, None, None), Req("info", <<"1">>, <<>>, None, None)>>,
   <<Req("servers", <<"1">>, <<"1">>, None, None),
     Req("sources", <<"1">>, <<"2">>, Some(<<"h", "d">>), None)>>,
   <<Req("sources", <<"1">>, <<"2">>, Some(<<"a", "_", "b">>), Some(<<"c">>)),
     Req("sources", <<"1">>, <<"2">>, Some(<<"a">>), Some(<<"b", "_", "c">>))>>}

\* Cache entries and what getCachedData hands back.
Absent == [kind |-> "absent", data |-> <<>>, ttl |-> 0]

EmptyEntry == [kind |-> "empty", data |-> <<>>, ttl |-> 0]

DataEntry(d, ttl) == [kind |-> "data", data |-> d, ttl |-> ttl]

\* What a handler answers: the status and the JSON body.
NoResponse == [status |-> 0, body |-> <<>>]

OkResponse(data) == [status |-> 200, body |-> data]

\* The message is kept as the sequence of its parts.
ErrResponse(status, why) ==
  [status |-> status, body |-> [success |-> FALSE, message |-> why]]

NotRead == [kind |-> "unread", data |-> <<>>, ttl |-> 0]

\* The cached value never used: every read goes on to the resolver.
IsCacheHitNever(v) == FALSE

\* Line 98 with the length test left out: any truthy value is a hit.
IsCacheHitTruthy(v) == v.kind # "absent"

\* Lines 98, 188, 304: cachedData && Object.keys(cachedData).length > 0.
IsCacheHit(v) == v.kind # "absent" /\ v.kind # "empty"

\* s.split(sep).pop(): the part of s behind the last occurrence of sep, or s
\* when sep does not occur.
AfterLast(s, sep) ==
  LET at == {i \in 1..(Len(s) - Len(sep) + 1) : SubSeq(s, i, i + Len(sep) - 1) = sep}
  IN IF at = {} THEN s
     ELSE LET last == CHOOSE i \in at : \A j \in at : j <= i
          IN SubSeq(s, last + Len(sep), Len(s))

EpSep == <<"?", "e", "p", "=">>

\* The entries numbered by the episode id of their href instead of by their
\* position.
ParseEpisodesByEpisodeId(page) ==
  [i \in 1..Len(page) |->
     LET eid == IF page[i].href.some
                THEN ToNumber(Some(AfterLast(page[i].href.val, EpSep)))
                ELSE NaN
     IN [id        |-> IF page[i].href.some THEN LastSegment(page[i].href.val) ELSE <<>>,
         episodeId |-> eid,
         title     |-> IF page[i].title.some THEN page[i].title.val ELSE <<>>,
         number    |-> eid.n]]

\* Lines 161-168: one entry per anchor, numbered by position.
ParseEpisodes(page) ==
  [i \in 1..Len(page) |->
     [id        |-> IF page[i].href.some THEN LastSegment(page[i].href.val) ELSE <<>>,
      episodeId |-> IF page[i].href.some
                    THEN ToNumber(Some(AfterLast(page[i].href.val, EpSep)))
                    ELSE NaN,
      title     |-> IF page[i].title.some THEN page[i].title.val ELSE <<>>,
      number    |-> i]]

\* getEpisodesByHiAnimeId with a page without entries treated as a failure.
GetEpisodesEmptyIsError(outcome, page) ==
  IF outcome = "rejects" \/ page = <<>>
  THEN [ok |-> FALSE, list |-> <<>>]
  ELSE [ok |-> TRUE, list |-> ParseEpisodes(page)]

\* getEpisodesByHiAnimeId (lines 145-175) as a function of what the
\* episode-list request does: it rejects, and the catch block throws, or it
\* answers with the page, and the parsed list is returned.
GetEpisodes(outcome, page) ==
  IF outcome = "rejects"
  THEN [ok |-> FALSE, list |-> <<>>]
  ELSE [ok |-> TRUE, list |-> ParseEpisodes(page)]

\* The anchors an episode page can hold: with an episode id, with a smaller
\* one, without href, with an href without episode id.
EpisodeAnchors ==
  {[href |-> Some(<<"/", "w", "/", "e", "x", "?", "e", "p", "=", "1", "2">>),
    title |-> Some(<<"O", "n", "e">>)],
   [href |-> Some(<<"/", "w", "/", "e", "x", "?", "e", "p", "=", "7">>),
    title |-> None],
   [href |-> None, title |-> Some(<<"T", "w", "o">>)],
   [href |-> Some(<<"/", "w", "/", "e", "x">>), title |-> Some(<<"T", "w", "o">>)]}

EpisodePages ==
  {<<>>,
   <<[href |-> Some(<<"/", "w", "/", "e", "x", "?", "e", "p", "=", "1", "2">>),
      title |-> Some(<<"O", "n", "e">>)],
     [href |-> Some(<<"/", "w", "/", "e", "x", "?", "e", "p", "=", "7">>),
      title |-> None]>>}

VARIABLES
  variant,        \* which definition of mapAnilistToHiAnimeId runs: "v1", "v2"
  media,          \* upstream: the metadata provider's answer for the id
  results,        \* upstream: the anchors of the search page, in page order
  episodesPage,   \* upstream: the anchors of the episode list, in page order
  handler,        \* per request: the handler that serves it
  params,         \* per request: req.params and req.query
  pc,             \* per request: where the request stands
  calls,          \* per request: the remote calls issued and their outcomes
  anilistData,    \* per request: local anilistData
  searchTitle,    \* per request: local searchTitle
  similarTitles,  \* per request: local similarTitles, after the sort
  selectedMatch,  \* per request: rank of the selected candidate, 0 for none
  mapResult,      \* per request: outcome of mapAnilistToHiAnimeId
  mapError,       \* per request: the error mapAnilistToHiAnimeId rejected with
  cachedData,     \* per request: local cachedData
  animeInfo,      \* per request: local animeInfo
  episodesList,   \* per request: local episodesList
  response,       \* per request: what the handler answered
  writeState,     \* per request: state of the promise of setCachedData
  cache           \* the cache store: key -> entry

world == <<variant, media, results, episodesPage>>

request == <<handler, params>>

resolverVars ==
  <<anilistData, searchTitle, similarTitles, selectedMatch, mapResult, mapError>>

handlerVars == <<cachedData, animeInfo, episodesList, response, writeState>>

vars == <<world, request, pc, calls, resolverVars, handlerVars, cache>>

\* ------------------------------------------------------------------------
\* mapAnilistToHiAnimeId
\* ------------------------------------------------------------------------

\* What follows the metadata fetch when the null check of lines 69-71 is
\* missing.
AfterFetchNoNullCheck(v, m) ==
  LET st == OrElse(m.english, m.romaji)
  IN IF v = "v1" /\ ~Truthy(st) THEN Fail("NoTitle") ELSE Ok(<<>>)

\* Lines 69-78 (v1) and 245-250 (v2), the code between the metadata fetch and
\* the search request: Fail(kind) for a throw, Ok for going on to the search.
\* Only v1 checks that a title was found.
AfterFetch(v, m) ==
  LET st == OrElse(m.english, m.romaji)
  IN IF ~m.found THEN Fail("NotFound")
     ELSE IF v = "v1" /\ ~Truthy(st) THEN Fail("NoTitle")
     ELSE Ok(<<>>)

\* The candidate list kept in a binding outside the call: each call pushes
\* its candidates behind those of the calls that ran before it.
AfterSearchSharedList(v, st, res) ==
  IF ~st.some /\ res # <<>>
  THEN [cands |-> <<>>, sel |-> 0, out |-> Fail("TypeError")]
  ELSE LET earlier == similarTitles["r1"] \o similarTitles["r2"]
           cands   == SortBySimilarity(earlier \o ParseResults(res, st.val))
       IN IF cands = <<>>
          THEN [cands |-> cands, sel |-> 0, out |-> Fail("NoMatch")]
          ELSE LET k == SelectIndex(v, st.val, cands)
               IN [cands |-> cands, sel |-> k, out |-> Selected(v, cands[k])]

\* Lines 86-129 (v1) and 256-283 (v2), the code behind the search response:
\* the ranked list, the rank selected and the outcome.  With searchTitle null
\* (v2 only) the first scoring call throws a TypeError inside the library.
AfterSearch(v, st, res) ==
  IF ~st.some /\ res # <<>>
  THEN [cands |-> <<>>, sel |-> 0, out |-> Fail("TypeError")]
  ELSE LET cands == SortBySimilarity(ParseResults(res, st.val))
       IN IF cands = <<>>
          THEN [cands |-> cands, sel |-> 0, out |-> Fail("NoMatch")]
          ELSE LET k == SelectIndex(v, st.val, cands)
               IN [cands |-> cands, sel |-> k, out |-> Selected(v, cands[k])]

\* fetchAnilistInfo rejects (lines 53-56): the request failed.
MapFetchFails(r) ==
  /\ pc[r] = "map_fetch"
  /\ calls' = [calls EXCEPT ![r] = @ \o <<"meta_err">>]
  /\ mapResult' = [mapResult EXCEPT ![r] = Fail("FetchFailed")]
  /\ mapError' = [mapError EXCEPT ![r] = Rethrown(variant, Raised("FetchFailed"))]
  /\ pc' = [pc EXCEPT ![r] = "map_done"]
  /\ UNCHANGED <<world, request, handlerVars, cache,
                 anilistData, searchTitle, similarTitles, selectedMatch>>

\* fetchAnilistInfo resolves with Media (line 52); the caller runs on to the
\* search request of line 83, or throws before it.
MapFetchReturns(r) ==
  /\ pc[r] = "map_fetch"
  /\ anilistData' = [anilistData EXCEPT ![r] = media]
  /\ LET next == AfterFetch(variant, media)
     IN IF next.ok
        THEN /\ searchTitle' = [searchTitle EXCEPT ![r] = OrElse(media.english, media.romaji)]
             /\ calls' = [calls EXCEPT ![r] = @ \o <<"meta_ok", "search">>]
             /\ pc' = [pc EXCEPT ![r] = "map_search"]
             /\ UNCHANGED <<mapResult, mapError>>
        ELSE /\ calls' = [calls EXCEPT ![r] = @ \o <<"meta_ok">>]
             /\ mapResult' = [mapResult EXCEPT ![r] = next]
             /\ mapError' = [mapError EXCEPT ![r] = Rethrown(variant, Raised(next.kind))]
             /\ pc' = [pc EXCEPT ![r] = "map_done"]
             /\ UNCHANGED searchTitle
  /\ UNCHANGED <<world, request, handlerVars, cache, similarTitles, selectedMatch>>

\* The search request rejects: the catch block of line 130 turns it into a
\* failure of the resolution.
MapSearchFails(r) ==
  /\ pc[r] = "map_search"
  /\ calls' = [calls EXCEPT ![r] = @ \o <<"search_err">>]
  /\ mapResult' = [mapResult EXCEPT ![r] = Fail("SearchFailed")]
  /\ mapError' = [mapError EXCEPT ![r] = Rethrown(variant, Raised("SearchFailed"))]
  /\ pc' = [pc EXCEPT ![r] = "map_done"]
  /\ UNCHANGED <<world, request, handlerVars, cache,
                 anilistData, searchTitle, similarTitles, selectedMatch>>

\* The search page arrives: parse, rank, select, return.
MapSearchReturns(r) ==
  /\ pc[r] = "map_search"
  /\ LET a == AfterSearch(variant, searchTitle[r], results)
     IN /\ similarTitles' = [similarTitles EXCEPT ![r] = a.cands]
        /\ selectedMatch' = [selectedMatch EXCEPT ![r] = a.sel]
        /\ mapResult' = [mapResult EXCEPT ![r] = a.out]
        /\ mapError' = [mapError EXCEPT ![r] =
             IF a.out.ok THEN @ ELSE Rethrown(variant, Raised(a.out.kind))]
  /\ calls' = [calls EXCEPT ![r] = @ \o <<"search_ok">>]
  /\ pc' = [pc EXCEPT ![r] = "map_done"]
  /\ UNCHANGED <<world, request, handlerVars, cache, anilistData, searchTitle>>

\* ------------------------------------------------------------------------
\* One call of mapAnilistToHiAnimeId, for every metadata record and every
\* search page of at most MaxResults anchors
\* ------------------------------------------------------------------------

InitResolve ==
  /\ variant \in {"v1", "v2"}
  /\ media \in Medias
  /\ results \in ResultLists
  /\ episodesPage = <<>>
  /\ handler = [r \in Reqs |-> "direct"]
  /\ params = [r \in Reqs |-> Req("direct", <<"1">>, <<>>, None, None).params]
  /\ cachedData = [r \in Reqs |-> NotRead]
  /\ animeInfo = [r \in Reqs |-> None]
  /\ episodesList = [r \in Reqs |-> <<>>]
  /\ response = [r \in Reqs |-> NoResponse]
  /\ writeState = [r \in Reqs |-> "none"]
  /\ cache = [k \in {} |-> Absent]
  /\ pc = [r \in Reqs |-> IF r = "r1" THEN "map_fetch" ELSE "idle"]
  /\ calls = [r \in Reqs |-> IF r = "r1" THEN <<"meta">> ELSE <<>>]
  /\ anilistData = [r \in Reqs |-> NoMedia]
  /\ searchTitle = [r \in Reqs |-> None]
  /\ similarTitles = [r \in Reqs |-> <<>>]
  /\ selectedMatch = [r \in Reqs |-> 0]
  /\ mapResult = [r \in Reqs |-> NoResult]
  /\ mapError = [r \in Reqs |-> NoError]

NextResolve ==
  \E r \in Reqs :
    \/ MapFetchFails(r)
    \/ MapFetchReturns(r)
    \/ MapSearchFails(r)
    \/ MapSearchReturns(r)

SpecResolve == InitResolve /\ [][NextResolve]_vars

\* ------------------------------------------------------------------------
\* Claims about the resolver (checked under SpecResolve)
\* ------------------------------------------------------------------------

\* The selection step has run for r: there is a ranked, non-empty list.
Ranked(r) == selectedMatch[r] # 0

QueryHasMarker(r) == SeasonMatch(searchTitle[r].val)

TopHasMarker(r) == SeasonMatch(similarTitles[r][1].title)

ParseableIds == {ParseId(results[i].href) : i \in 1..Len(results)} \ {<<>>}

SearchAnswered(r) == pc[r] = "map_done" /\ Contains(calls[r], "search_ok")

\* C1 (as stated): whenever a query title exists and exactly one of the query
\* title and the top-ranked title matches the season pattern, the
\* second-ranked candidate is the one selected, and the top-ranked one only
\* when the list has no second entry.
C1_DisagreementSelectsSecond ==
  \A r \in Reqs :
    (Ranked(r) /\ Truthy(searchTitle[r]) /\ (QueryHasMarker(r) # TopHasMarker(r)))
      => selectedMatch[r] = (IF Len(similarTitles[r]) >= 2 THEN 2 ELSE 1)

\* C2: whenever the query title and the top-ranked title both match the
\* season pattern or both do not, the top-ranked candidate is selected, and a
\* resolution that returns an id returns the top-ranked candidate's id.
C2_AgreementSelectsTop ==
  \A r \in Reqs :
    (Ranked(r) /\ (QueryHasMarker(r) = TopHasMarker(r)))
      => /\ selectedMatch[r] = 1
         /\ mapResult[r].ok => mapResult[r].id = similarTitles[r][1].id

\* C2 witness: an agreement case with a runner-up present, resolved to the
\* top-ranked candidate.
C2_Witness ==
  \E r \in Reqs :
    /\ Ranked(r)
    /\ QueryHasMarker(r) = TopHasMarker(r)
    /\ Len(similarTitles[r]) >= 2
    /\ similarTitles[r][2].id # similarTitles[r][1].id
    /\ mapResult[r] = Ok(similarTitles[r][1].id)
    /\ mapResult[r].id # <<>>

\* C3 (as stated): when the metadata fetch and the search succeed, a query
\* title exists and the search page holds a candidate with a parseable id,
\* the resolution returns the id of one of the candidates and does not fail.
C3_ResolvesToSomeCandidate ==
  \A r \in Reqs :
    (SearchAnswered(r) /\ Truthy(searchTitle[r]) /\ ParseableIds # {})
      => mapResult[r].ok /\ mapResult[r].id \in ParseableIds

\* C4 (as stated): every candidate of the ranked list has a non-empty id.
C4_RankedIdsNonEmpty ==
  \A r \in Reqs :
    \A i \in 1..Len(similarTitles[r]) : similarTitles[r][i].id # <<>>

\* C5 (as stated): when the search is answered for an existing query title
\* and no result has a parseable id, the resolution fails with the
\* "No matches found" error and returns no id.
C5_NoMatchWhenNothingParseable ==
  \A r \in Reqs :
    (SearchAnswered(r) /\ Truthy(searchTitle[r]) /\ ParseableIds = {})
      => ~mapResult[r].ok /\ mapResult[r].kind = "NoMatch"

\* C6 (as stated): when the metadata record has neither a non-empty english
\* nor a non-empty romaji title, the resolution fails with the no-title error
\* and no search is issued.
C6_NoTitleFailsBeforeSearch ==
  \A r \in Reqs :
    (Contains(calls[r], "meta_ok") /\ anilistData[r].found
       /\ ~Truthy(anilistData[r].english) /\ ~Truthy(anilistData[r].romaji))
      => mapResult[r] = Fail("NoTitle") /\ ~Contains(calls[r], "search")

\* C7: the remote calls of one resolution are the metadata fetch and then the
\* search; a search is issued only after the fetch returned a record; and a
\* fetch that returns no record ends the resolution with the not-found error.
C7_FetchThenSearch ==
  \A r \in Reqs :
    /\ Contains(calls[r], "search")
         => /\ SubSeq(calls[r], 1, 3) = <<"meta", "meta_ok", "search">>
            /\ anilistData[r].found
            /\ Cardinality({i \in 1..Len(calls[r]) : calls[r][i] = "search"}) = 1
    /\ (Contains(calls[r], "meta_ok") /\ ~media.found)
         => mapResult[r] = Fail("NotFound") /\ pc[r] = "map_done"

\* C7 witness: the provider has no record and the resolution has ended with
\* the not-found error right after the fetch.
C7_Witness ==
  \E r \in Reqs :
    /\ ~media.found
    /\ calls[r] = <<"meta", "meta_ok">>
    /\ mapResult[r] = Fail("NotFound")

\* C8: the ranked list is the parsed list reordered by descending rounded
\* score, candidates of equal score keeping their result order; so the
\* top-ranked candidate is the earliest result among those of maximal score.
C8_StableDescendingRank ==
  \A r \in Reqs :
    Ranked(r) =>
      LET raw    == ParseResults(results, searchTitle[r].val)
          ranked == similarTitles[r]
          scores == {raw[i].similarity : i \in 1..Len(raw)}
          best   == CHOOSE s \in scores : \A t \in scores : s >= t
          first  == CHOOSE i \in 1..Len(raw) :
                      /\ raw[i].similarity = best
                      /\ \A j \in 1..(i - 1) : raw[j].similarity # best
      IN /\ Len(ranked) = Len(raw)
         /\ \A i \in 1..(Len(ranked) - 1) :
              ranked[i].similarity >= ranked[i + 1].similarity
         /\ \A s \in scores :
              SelectSeq(ranked, LAMBDA c : c.similarity = s)
                = SelectSeq(raw, LAMBDA c : c.similarity = s)
         /\ ranked[1] = raw[first]

\* C8 witness: the sort has moved a candidate, and two different candidates
\* of equal score stand in the ranked list.
C8_Witness ==
  \E r \in Reqs :
    /\ Ranked(r)
    /\ similarTitles[r] # ParseResults(results, searchTitle[r].val)
    /\ \E i, j \in 1..Len(similarTitles[r]) :
         /\ i < j
         /\ similarTitles[r][i].similarity = similarTitles[r][j].similarity
         /\ similarTitles[r][i] # similarTitles[r][j]

\* ------------------------------------------------------------------------
\* The request handlers
\* ------------------------------------------------------------------------

Key(r) == CacheKey(handler[r], params[r])

\* The parameter checks without the test for the server parameter.
InvalidParamsNoServerCheck(h, p) ==
  \/ NotANumber(p.id)
  \/ (h \in {"servers", "sources"} /\ NotANumber(p.episodeNumber))

\* The parameter checks of lines 17, 88, 170-184 and 276-298.
InvalidParams(h, p) ==
  \/ NotANumber(p.id)
  \/ (h \in {"servers", "sources"} /\ NotANumber(p.episodeNumber))
  \/ (h = "sources" /\ ~Truthy(p.server))

\* episodesList.find(ep => ep.number === Number(episodeNumber)): the index of
\* the entry, 0 when there is none (lines 219, 335).
FindEpisode(list, ep) ==
  LET n == ToNumber(Some(ep))
  IN IF ~n.nan /\ n.n \in 1..Len(list) THEN n.n ELSE 0

\* A rejected cache write turns the answer into an error.
WriteFailureRaises(resp) == ErrResponse(500, <<"internal">>)

\* The .catch of lines 143-145, 249-251, 378-380: the failure is logged and
\* the answer stays what it is.
WriteFailureResponse(resp) == resp

\* The handler's synchronous start: parameter checks, then the first await.
Start(r) ==
  /\ pc[r] = "start"
  /\ IF InvalidParams(handler[r], params[r])
     THEN /\ response' = [response EXCEPT ![r] = ErrResponse(400, <<"invalid">>)]
          /\ pc' = [pc EXCEPT ![r] = "done"]
          /\ UNCHANGED calls
     ELSE IF handler[r] = "test"
     THEN /\ pc' = [pc EXCEPT ![r] = "test_fetch"]
          /\ calls' = [calls EXCEPT ![r] = @ \o <<"fetch">>]
          /\ UNCHANGED response
     ELSE /\ pc' = [pc EXCEPT ![r] = "cache_read"]
          /\ calls' = [calls EXCEPT ![r] = @ \o <<"cache_get">>]
          /\ UNCHANGED response
  /\ UNCHANGED <<world, request, resolverVars, cachedData, animeInfo,
                 episodesList, writeState, cache>>

\* Lines 96-105 (and 186-195, 302-311): the cache answers; a hit is returned,
\* a miss calls the resolver.
CacheRead(r) ==
  /\ pc[r] = "cache_read"
  /\ cachedData' = [cachedData EXCEPT ![r] = cache[Key(r)]]
  /\ IF IsCacheHit(cache[Key(r)])
     THEN /\ response' = [response EXCEPT ![r] = OkResponse(cache[Key(r)].data)]
          /\ pc' = [pc EXCEPT ![r] = "done"]
          /\ UNCHANGED calls
     ELSE /\ pc' = [pc EXCEPT ![r] = "map_fetch"]
          /\ calls' = [calls EXCEPT ![r] = @ \o <<"meta">>]
          /\ UNCHANGED response
  /\ UNCHANGED <<world, request, resolverVars, animeInfo, episodesList,
                 writeState, cache>>

\* testAnilistMapping, lines 29-39: fetchAnilistInfo rejects.
TestFetchFails(r) ==
  /\ pc[r] = "test_fetch"
  /\ calls' = [calls EXCEPT ![r] = @ \o <<"fetch_err">>]
  /\ response' = [response EXCEPT ![r] =
       ErrResponse(404, <<"Failed to fetch AniList info">>
                          \o FetchAnilistError(TransportError).message)]
  /\ pc' = [pc EXCEPT ![r] = "done"]
  /\ UNCHANGED <<world, request, resolverVars, cachedData, animeInfo,
                 episodesList, writeState, cache>>

\* testAnilistMapping, lines 30-44: fetchAnilistInfo resolves, the resolver
\* is called next.
TestFetchReturns(r) ==
  /\ pc[r] = "test_fetch"
  /\ calls' = [calls EXCEPT ![r] = @ \o <<"fetch_ok", "meta">>]
  /\ pc' = [pc EXCEPT ![r] = "map_fetch"]
  /\ UNCHANGED <<world, request, resolverVars, handlerVars, cache>>

\* The answer of testAnilistMapping, lines 55-65.
TestData(r) ==
  [success |-> TRUE, anilistId |-> ToNumber(Some(params[r].id)).n,
   anilistInfo |-> [english |-> media.english, romaji |-> media.romaji],
   hiAnimeId |-> mapResult[r].id]

\* responseData built from a hiAnimeId that lives outside the handler call,
\* in a binding all requests share.
InfoDataShared(r, eps) ==
  [anilistId |-> ToNumber(Some(params[r].id)).n, hiAnimeId |-> mapResult["r1"].id,
   info |-> animeInfo[r].val, episodes |-> eps]

\* responseData of lines 135-140, 240-246 and 366-375.
InfoData(r, eps) ==
  [anilistId |-> ToNumber(Some(params[r].id)).n, hiAnimeId |-> mapResult[r].id,
   info |-> animeInfo[r].val, episodes |-> eps]

ServersData(r, servers) ==
  LET k == FindEpisode(episodesList[r], params[r].episodeNumber)
  IN [anilistId |-> ToNumber(Some(params[r].id)).n, hiAnimeId |-> mapResult[r].id,
      episodeNumber |-> ToNumber(Some(params[r].episodeNumber)).n,
      episodeId |-> episodesList[r][k].episodeId, servers |-> servers]

SourcesData(r, info) ==
  LET k == FindEpisode(episodesList[r], params[r].episodeNumber)
  IN [anilistId |-> ToNumber(Some(params[r].id)).n, hiAnimeId |-> mapResult[r].id,
      episodeNumber |-> ToNumber(Some(params[r].episodeNumber)).n,
      episodeId |-> episodesList[r][k].episodeId,
      server |-> params[r].server.val, type |-> TypeOf(params[r]),
      sources |-> info.streamingLink, availableServers |-> info.servers]

\* The resolver has returned to the handler (lines 44-53, 105-116, 195-208,
\* 311-324): a failure answers 404, a success goes on to the next call.
AfterMap(r) ==
  /\ pc[r] = "map_done"
  /\ handler[r] # "direct"
  /\ IF ~mapResult[r].ok
     THEN /\ response' = [response EXCEPT ![r] = ErrResponse(404, mapError[r].message)]
          /\ pc' = [pc EXCEPT ![r] = "done"]
          /\ UNCHANGED calls
     ELSE IF handler[r] = "test"
     THEN /\ response' = [response EXCEPT ![r] = OkResponse(TestData(r))]
          /\ pc' = [pc EXCEPT ![r] = "done"]
          /\ UNCHANGED calls
     ELSE IF handler[r] = "info"
     THEN /\ pc' = [pc EXCEPT ![r] = "extract_info"]
          /\ calls' = [calls EXCEPT ![r] = @ \o <<"extract_info">>]
          /\ UNCHANGED response
     ELSE /\ pc' = [pc EXCEPT ![r] = "episodes"]
          /\ calls' = [calls EXCEPT ![r] = @ \o <<"episodes">>]
          /\ UNCHANGED response
  /\ UNCHANGED <<world, request, resolverVars, cachedData, animeInfo,
                 episodesList, writeState, cache>>

\* getAnimeInfoByAnilistId, lines 116-128: extractAnimeInfo rejects (outer
\* catch, 500), resolves with nothing (404) or resolves with the info.
ExtractInfo(r) ==
  /\ pc[r] = "extract_info"
  /\ \E outcome \in {"throws", "nothing", "ok"} :
       IF outcome = "ok"
       THEN /\ animeInfo' = [animeInfo EXCEPT ![r] = Some(<<"i", "n", "f", "o">>)]
            /\ calls' = [calls EXCEPT ![r] = @ \o <<"extract_info_ok", "episodes">>]
            /\ pc' = [pc EXCEPT ![r] = "episodes"]
            /\ UNCHANGED response
       ELSE /\ response' = [response EXCEPT ![r] =
                 IF outcome = "throws" THEN ErrResponse(500, <<"internal">>)
                 ELSE ErrResponse(404, <<"info">>)]
            /\ calls' = [calls EXCEPT ![r] = @ \o
                 <<IF outcome = "throws" THEN "extract_info_throws"
                   ELSE "extract_info_nothing">>]
            /\ pc' = [pc EXCEPT ![r] = "done"]
            /\ UNCHANGED animeInfo
  /\ UNCHANGED <<world, request, resolverVars, cachedData, episodesList,
                 writeState, cache>>

\* The answer of the servers and sources handlers to a failed episode-list
\* fetch (lines 209-216, 325-332).
EpisodesFailedResponse ==
  ErrResponse(404, <<"Failed to get episodes for anime",
                     "Failed to get episodes for HiAnime ID">>)

\* getEpisodesByHiAnimeId settles and the handler runs on.  On a rejection
\* the info handler goes on with an empty list, builds its answer and issues
\* the cache write (lines 129-147), the other handlers answer 404 (lines
\* 209-216, 325-332).  With the list, the info handler answers and issues the
\* cache write; the other handlers look the episode up and answer 404 when it
\* is not there (lines 219-227, 335-343) or call the extractor.
EpisodesDone(r, outcome) ==
  LET res   == GetEpisodes(outcome, episodesPage)
      event == IF outcome = "rejects" THEN "episodes_err" ELSE "episodes_ok"
  IN /\ pc[r] = "episodes"
     /\ IF ~res.ok
        THEN /\ calls' = [calls EXCEPT ![r] = @ \o <<event>>]
             /\ pc' = [pc EXCEPT ![r] = "done"]
             /\ UNCHANGED episodesList
             /\ IF handler[r] = "info"
                THEN /\ response' = [response EXCEPT ![r] = OkResponse(InfoData(r, <<>>))]
                     /\ writeState' = [writeState EXCEPT ![r] = "pending"]
                ELSE /\ response' = [response EXCEPT ![r] = EpisodesFailedResponse]
                     /\ UNCHANGED writeState
        ELSE /\ episodesList' = [episodesList EXCEPT ![r] = res.list]
             /\ IF handler[r] = "info"
                THEN /\ response' = [response EXCEPT ![r] = OkResponse(InfoData(r, res.list))]
                     /\ writeState' = [writeState EXCEPT ![r] = "pending"]
                     /\ calls' = [calls EXCEPT ![r] = @ \o <<event>>]
                     /\ pc' = [pc EXCEPT ![r] = "done"]
                ELSE IF FindEpisode(res.list, params[r].episodeNumber) = 0
                THEN /\ response' = [response EXCEPT ![r] = ErrResponse(404, <<"episode">>)]
                     /\ calls' = [calls EXCEPT ![r] = @ \o <<event>>]
                     /\ pc' = [pc EXCEPT ![r] = "done"]
                     /\ UNCHANGED writeState
                ELSE /\ calls' = [calls EXCEPT ![r] = @ \o <<event, "extract">>]
                     /\ pc' = [pc EXCEPT ![r] = "extract"]
                     /\ UNCHANGED <<response, writeState>>
     /\ UNCHANGED <<world, request, resolverVars, cachedData, animeInfo, cache>>

\* The episode-list request rejects (lines 171-174).
EpisodesFails(r) == EpisodesDone(r, "rejects")

\* The episode-list request answers with the page (lines 158-170).
EpisodesReturns(r) == EpisodesDone(r, "answers")

StreamingInfo ==
  [streamingLink |-> <<"l", "i", "n", "k">>, servers |-> <<<<"h", "d">>>>]

\* extractServers (lines 230-253) or extractStreamingInfo (lines 345-382)
\* answers: a rejection gives 500, an empty answer 404, anything else the
\* answer with its cache write issued.
Extract(r) ==
  /\ pc[r] = "extract"
  /\ pc' = [pc EXCEPT ![r] = "done"]
  /\ \E outcome \in {"throws", "nothing", "ok"} :
       IF outcome = "ok"
       THEN /\ response' = [response EXCEPT ![r] =
                 IF handler[r] = "servers"
                 THEN OkResponse(ServersData(r, <<<<"h", "d">>>>))
                 ELSE OkResponse(SourcesData(r, StreamingInfo))]
            /\ calls' = [calls EXCEPT ![r] = @ \o <<"extract_ok">>]
            /\ writeState' = [writeState EXCEPT ![r] = "pending"]
       ELSE /\ response' = [response EXCEPT ![r] =
                 IF outcome = "throws" THEN ErrResponse(500, <<"internal">>)
                 ELSE ErrResponse(404, <<"extract">>)]
            /\ calls' = [calls EXCEPT ![r] = @ \o
                 <<IF outcome = "throws" THEN "extract_throws"
                   ELSE "extract_nothing">>]
            /\ UNCHANGED writeState
  /\ UNCHANGED <<world, request, resolverVars, cachedData, animeInfo,
                 episodesList, cache>>

\* The cache store takes the write issued by r.
CacheWriteLands(r) ==
  /\ writeState[r] = "pending"
  /\ writeState' = [writeState EXCEPT ![r] = "stored"]
  /\ cache' = [cache EXCEPT ![Key(r)] = DataEntry(response[r].body, Ttl(handler[r]))]
  /\ UNCHANGED <<world, request, pc, calls, resolverVars, cachedData,
                 animeInfo, episodesList, response>>

\* The write issued by r is rejected.
CacheWriteFails(r) ==
  /\ writeState[r] = "pending"
  /\ writeState' = [writeState EXCEPT ![r] = "failed"]
  /\ response' = [response EXCEPT ![r] = WriteFailureResponse(@)]
  /\ UNCHANGED <<world, request, pc, calls, resolverVars, cachedData,
                 animeInfo, episodesList, cache>>

\* An empty value stored under k before the requests came in, of unknown
\* age, has reached its ttl.
CacheExpire(k) ==
  /\ cache[k].kind = "empty"
  /\ cache' = [cache EXCEPT ![k] = Absent]
  /\ UNCHANGED <<world, request, pc, calls, resolverVars, handlerVars>>

\* TickLen seconds pass: every stored entry has that much less to live, and
\* an entry whose ttl has elapsed is gone.  The ttl field of an entry is the
\* time left until its expiresAt.
Tick ==
  /\ \E k \in DOMAIN cache : cache[k].kind = "data"
  /\ cache' = [k \in DOMAIN cache |->
                 IF cache[k].kind # "data" THEN cache[k]
                 ELSE IF cache[k].ttl > TickLen
                      THEN [cache[k] EXCEPT !.ttl = @ - TickLen]
                      ELSE Absent]
  /\ UNCHANGED <<world, request, pc, calls, resolverVars, handlerVars>>

\* ------------------------------------------------------------------------
\* Two requests served concurrently over one cache store
\* ------------------------------------------------------------------------

\* A record with an english title; search pages with a parseable first
\* anchor, with no parseable anchor, and with no anchor.
HandlerWorlds ==
  {[m |-> [found |-> TRUE, english |-> Some(TEx), romaji |-> None], res |-> rs] :
     rs \in {<<>>,
             <<[title |-> TEx, href |-> Some(<<"/", "e", "x", "-", "1">>)]>>,
             <<[title |-> TEx, href |-> None]>>}}

Init ==
  /\ variant \in {"v1", "v2"}
  /\ \E w \in HandlerWorlds : media = w.m /\ results = w.res
  /\ episodesPage \in EpisodePages
  /\ \E q \in RequestPairs :
       /\ handler = [r \in Reqs |-> IF r = "r1" THEN q[1].handler ELSE q[2].handler]
       /\ params = [r \in Reqs |-> IF r = "r1" THEN q[1].params ELSE q[2].params]
  /\ \E e \in {Absent, EmptyEntry} :
       cache = [k \in {CacheKey(handler[r], params[r]) :
                         r \in {x \in Reqs : /\ handler[x] # "test"
                                              /\ ~InvalidParams(handler[x], params[x])}}
                 |-> e]
  /\ pc = [r \in Reqs |-> "start"]
  /\ calls = [r \in Reqs |-> <<>>]
  /\ anilistData = [r \in Reqs |-> NoMedia]
  /\ searchTitle = [r \in Reqs |-> None]
  /\ similarTitles = [r \in Reqs |-> <<>>]
  /\ selectedMatch = [r \in Reqs |-> 0]
  /\ mapResult = [r \in Reqs |-> NoResult]
  /\ mapError = [r \in Reqs |-> NoError]
  /\ cachedData = [r \in Reqs |-> NotRead]
  /\ animeInfo = [r \in Reqs |-> None]
  /\ episodesList = [r \in Reqs |-> <<>>]
  /\ response = [r \in Reqs |-> NoResponse]
  /\ writeState = [r \in Reqs |-> "none"]

Next ==
  \/ \E r \in Reqs :
       \/ Start(r)
       \/ CacheRead(r)
       \/ TestFetchFails(r)
       \/ TestFetchReturns(r)
       \/ MapFetchFails(r)
       \/ MapFetchReturns(r)
       \/ MapSearchFails(r)
       \/ MapSearchReturns(r)
       \/ AfterMap(r)
       \/ ExtractInfo(r)
       \/ EpisodesFails(r)
       \/ EpisodesReturns(r)
       \/ Extract(r)
       \/ CacheWriteLands(r)
       \/ CacheWriteFails(r)
  \/ \E k \in DOMAIN cache : CacheExpire(k)
  \/ Tick

Spec == Init /\ [][Next]_vars

\* ------------------------------------------------------------------------
\* Claims about the handlers and the cache (checked under Spec)
\* ------------------------------------------------------------------------

\* C9: a handler never answers with an empty structure, and a request whose
\* cache read gave an empty value or nothing is treated as a miss: it calls
\* the resolver, and if it answers 200 the answer is the one it computed and
\* handed to the cache write.
C9_EmptyCacheValueIsMiss ==
  \A r \in Reqs :
    /\ response[r].status = 200 => response[r].body # <<>>
    /\ cachedData[r].kind \in {"absent", "empty"}
         => /\ Contains(calls[r], "meta")
            /\ response[r].status = 200 => writeState[r] # "none"

\* C9 witness: the store held an empty value under the key, and the request
\* went through the resolver and answered what it computed.
C9_Witness ==
  \E r \in Reqs :
    /\ cachedData[r] = EmptyEntry
    /\ Contains(calls[r], "search_ok")
    /\ pc[r] = "done"
    /\ response[r].status = 200

\* C10: once a handler has issued its cache write it has answered 200 with
\* the response it computed, and the answer is the same while the write is
\* pending, after it is stored and after it failed.
C10_WriteOutcomeKeepsAnswer ==
  \A r \in Reqs :
    writeState[r] \in {"pending", "stored", "failed"}
      => /\ pc[r] = "done"
         /\ response[r].status = 200
         /\ response[r].body.hiAnimeId = mapResult[r].id
         /\ response[r].body.anilistId = ToNumber(Some(params[r].id)).n

\* C10 witness: a request whose cache write failed and one whose write is
\* stored, both answered 200.
C10_Witness ==
  /\ \E r \in Reqs : writeState[r] = "failed" /\ response[r].status = 200
  /\ \E r \in Reqs : writeState[r] = "stored" /\ response[r].status = 200

\* ------------------------------------------------------------------------
\* Claims about the cache keys (checked under Spec)
\* ------------------------------------------------------------------------

\* The request r stands for: the operation, the canonical id and the episode
\* ordinal as numbers, the server name and the stream type with its default.
LogicalRequest(r) ==
  LET h == handler[r]
      p == params[r]
  IN [operation |-> h,
      id        |-> ToNumber(Some(p.id)).n,
      episode   |-> IF h \in {"servers", "sources"}
                    THEN ToNumber(Some(p.episodeNumber)).n ELSE 0,
      server    |-> IF h = "sources" THEN p.server.val ELSE <<>>,
      type      |-> IF h = "sources" THEN TypeOf(p) ELSE <<>>]

\* r passed the parameter checks of a caching handler and asked the cache
\* for its key.
Keyed(r) ==
  handler[r] \in {"info", "servers", "sources"} /\ Contains(calls[r], "cache_get")

\* C11 (as stated): two requests that passed validation and differ in the
\* operation, the canonical id, the episode ordinal, the server name or the
\* stream type address the cache under different keys.
C11_DistinctRequestsDistinctKeys ==
  \A r1, r2 \in Reqs :
    (Keyed(r1) /\ Keyed(r2) /\ LogicalRequest(r1) # LogicalRequest(r2))
      => Key(r1) # Key(r2)

\* C12 (as stated): two requests to the same handler that passed validation
\* and denote the same canonical id, episode ordinal, server and stream type
\* address the cache under the same key.
C12_SameRequestSameKey ==
  \A r1, r2 \in Reqs :
    (Keyed(r1) /\ Keyed(r2) /\ LogicalRequest(r1) = LogicalRequest(r2))
      => Key(r1) = Key(r2)

\* ------------------------------------------------------------------------
\* Claims about concurrent requests (checked under Spec)
\* ------------------------------------------------------------------------

\* r1 and r2 are two requests to one caching handler with the same
\* parameters.
SameRequest(r1, r2) ==
  /\ r1 # r2
  /\ handler[r1] \in {"info", "servers", "sources"}
  /\ handler[r1] = handler[r2]
  /\ params[r1] = params[r2]

\* The cache read of r came back without a usable entry.
Missed(r) == cachedData[r].kind \in {"absent", "empty"}

\* C13: when two requests with the same parameters both miss the cache, each
\* runs its own resolution (an answer of 200 comes after its own metadata
\* fetch, search and episode fetch); when the upstream answered both the same
\* way their responses are equal, whatever the interleaving; and the entry
\* the cache then holds is that response.
C13_ConcurrentMissesIndependent ==
  \A r1, r2 \in Reqs :
    (SameRequest(r1, r2) /\ Missed(r1) /\ Missed(r2))
      => /\ \A r \in {r1, r2} :
              /\ Contains(calls[r], "meta")
              /\ response[r].status = 200
                   => /\ SubSeq(calls[r], 1, 5)
                           = <<"cache_get", "meta", "meta_ok", "search", "search_ok">>
                      /\ Contains(calls[r], "episodes")
         /\ (pc[r1] = "done" /\ pc[r2] = "done" /\ calls[r1] = calls[r2])
              => /\ response[r1] = response[r2]
                 /\ cache[Key(r1)].kind = "data"
                      => cache[Key(r1)].data = response[r1].body

\* C13 witness: two info requests for the same id both missed, both went
\* through the three upstream calls, both answered 200, both writes landed,
\* and the cache holds the common response.
C13_Witness ==
  \E r1, r2 \in Reqs :
    /\ SameRequest(r1, r2) /\ Missed(r1) /\ Missed(r2)
    /\ handler[r1] = "info"
    /\ calls[r1] = calls[r2]
    /\ Contains(calls[r1], "episodes_ok")
    /\ response[r1].status = 200 /\ response[r2] = response[r1]
    /\ writeState[r1] = "stored" /\ writeState[r2] = "stored"
    /\ cache[Key(r1)].kind = "data"
    /\ cache[Key(r1)].data = response[r1].body

\* ------------------------------------------------------------------------
\* Claims about expiry (checked under Spec)
\* ------------------------------------------------------------------------

\* The longest a response of handler h may be served from the cache, in
\* seconds.
MaxAge(h) == IF h = "sources" THEN 1800 ELSE 3600

\* C14: an entry written with a non-empty value is read back as that value
\* until its ttl has elapsed and is absent from then on: every entry the
\* store holds is the response some request wrote, with between 1 second and
\* the handler's ttl left to live (3600 s for info and servers, 1800 s for
\* sources), and a request answered from the cache answers such an entry.
C14_EntriesExpireByTtl ==
  /\ \A k \in DOMAIN cache :
       cache[k].kind = "data"
         => \E r \in Reqs :
              /\ writeState[r] = "stored" /\ Key(r) = k
              /\ cache[k].data = response[r].body
              /\ cache[k].ttl \in 1..MaxAge(handler[r])
  /\ \A r \in Reqs :
       cachedData[r].kind = "data"
         => /\ cachedData[r].ttl \in 1..MaxAge(handler[r])
            /\ response[r] = OkResponse(cachedData[r].data)
            /\ cachedData[r].data # <<>>

\* C14 witness: one request's entry has expired after it was stored, and the
\* other request was answered from an entry that had aged but not expired.
C14_Witness ==
  \E r1, r2 \in Reqs :
    /\ writeState[r1] = "stored" /\ cache[Key(r1)] = Absent
    /\ cachedData[r2].kind = "data"
    /\ cachedData[r2].ttl < MaxAge(handler[r2])
    /\ response[r2].status = 200

\* ------------------------------------------------------------------------
\* Claims about the errors of the resolver (checked under SpecResolve)
\* ------------------------------------------------------------------------

\* The four kinds of failure the caller is to tell apart.
ResolutionErrorKinds == {"NotFound", "NoTitle", "NoMatch", "FetchFailed"}

\* C15 (as stated): when a resolution fails, the error its caller catches is
\* the error that was raised, and it differs from the error the caller would
\* catch for each of the other kinds of failure.
C15_ErrorsPropagateUnmodified ==
  \A r \in Reqs :
    (pc[r] = "map_done" /\ ~mapResult[r].ok)
      => /\ mapError[r] = Raised(mapResult[r].kind)
         /\ \A k \in ResolutionErrorKinds \ {mapResult[r].kind} :
              mapError[r] # Rethrown(variant, Raised(k))

\* ------------------------------------------------------------------------
\* Claims about the status a failure is answered with (checked under Spec)
\* ------------------------------------------------------------------------

\* A text that is a number to the handlers: non-empty, digits only.
NumericText(x) == x # <<>> /\ \A i \in 1..Len(x) : x[i] \in Digits

\* Invalid input: a non-numeric id, a non-numeric episode number where the
\* handler takes one, a missing or empty server where the handler takes one.
InvalidInput(r) ==
  \/ ~NumericText(params[r].id)
  \/ handler[r] \in {"servers", "sources"} /\ ~NumericText(params[r].episodeNumber)
  \/ handler[r] = "sources" /\ (~params[r].server.some \/ params[r].server.val = <<>>)

\* The resolution of r, or the metadata fetch before it, has failed.
ResolutionFailed(r) ==
  \/ ~mapResult[r].ok /\ mapResult[r].kind # "pending"
  \/ Contains(calls[r], "fetch_err")

ExtractorThrew(r) ==
  Contains(calls[r], "extract_throws") \/ Contains(calls[r], "extract_info_throws")

Answered(r) == pc[r] = "done" /\ handler[r] # "direct"

EpisodeRequests ==
  {Req("test", <<"1">>, <<>>, None, None),
   Req("info", <<"1">>, <<>>, None, None),
   Req("servers", <<"1">>, <<"1">>, None, None),
   Req("servers", <<"1">>, <<"9">>, None, None),
   Req("sources", <<"1">>, <<"2">>, Some(<<"h", "d">>), None)}

InitEpisodes ==
  /\ variant \in {"v1", "v2"}
  /\ media = [found |-> TRUE, english |-> Some(TEx), romaji |-> None]
  /\ results = <<[title |-> TEx, href |-> Some(<<"/", "e", "x", "-", "1">>)]>>
  /\ episodesPage \in SeqsUpTo(EpisodeAnchors, MaxEpisodes)
  /\ \E q \in EpisodeRequests :
       /\ handler = [r \in Reqs |-> IF r = "r1" THEN q.handler ELSE "direct"]
       /\ params = [r \in Reqs |-> IF r = "r1" THEN q.params
                                   ELSE Req("direct", <<"1">>, <<>>, None, None).params]
  /\ \E e \in {Absent, EmptyEntry} :
       cache = [k \in {CacheKey(handler[r], params[r]) :
                         r \in {x \in Reqs : handler[x] \in {"info", "servers", "sources"}}}
                 |-> e]
  /\ pc = [r \in Reqs |-> IF r = "r1" THEN "start" ELSE "idle"]
  /\ calls = [r \in Reqs |-> <<>>]
  /\ anilistData = [r \in Reqs |-> NoMedia]
  /\ searchTitle = [r \in Reqs |-> None]
  /\ similarTitles = [r \in Reqs |-> <<>>]
  /\ selectedMatch = [r \in Reqs |-> 0]
  /\ mapResult = [r \in Reqs |-> NoResult]
  /\ mapError = [r \in Reqs |-> NoError]
  /\ cachedData = [r \in Reqs |-> NotRead]
  /\ animeInfo = [r \in Reqs |-> None]
  /\ episodesList = [r \in Reqs |-> <<>>]
  /\ response = [r \in Reqs |-> NoResponse]
  /\ writeState = [r \in Reqs |-> "none"]

SpecEpisodes == InitEpisodes /\ [][Next]_vars

\* ------------------------------------------------------------------------
\* Claims about the episode lister (checked under SpecEpisodes)
\* ------------------------------------------------------------------------

\* C17: whenever the episode-list request of r was answered, the list r
\* holds has one entry per anchor of the page, and the entry at position i
\* has the number i, whatever the episode ids of the hrefs are.
C17_OrdinalsByPosition ==
  \A r \in Reqs :
    Contains(calls[r], "episodes_ok")
      => /\ Len(episodesList[r]) = Len(episodesPage)
         /\ \A i \in 1..Len(episodesList[r]) : episodesList[r][i].number = i
         /\ (handler[r] = "info" /\ response[r].status = 200)
              => \A i \in 1..Len(response[r].body.episodes) :
                   response[r].body.episodes[i].number = i

\* C17 witness: a list of three entries whose raw episode ids go down and
\* then repeat.
C17_Witness ==
  \E r \in Reqs :
    /\ Contains(calls[r], "episodes_ok")
    /\ Len(episodesList[r]) = 3
    /\ ~episodesList[r][1].episodeId.nan /\ ~episodesList[r][2].episodeId.nan
    /\ episodesList[r][1].episodeId.n > episodesList[r][2].episodeId.n
    /\ episodesList[r][3].episodeId = episodesList[r][2].episodeId
    /\ episodesList[r][3].number = 3

InitResolveTwice ==
  /\ variant \in {"v1", "v2"}
  /\ media \in Medias
  /\ results \in SeqsUpTo(Entries, MaxResultsTwice)
  /\ episodesPage = <<>>
  /\ handler = [r \in Reqs |-> "direct"]
  /\ params = [r \in Reqs |-> Req("direct", <<"1">>, <<>>, None, None).params]
  /\ cachedData = [r \in Reqs |-> NotRead]
  /\ animeInfo = [r \in Reqs |-> None]
  /\ episodesList = [r \in Reqs |-> <<>>]
  /\ response = [r \in Reqs |-> NoResponse]
  /\ writeState = [r \in Reqs |-> "none"]
  /\ cache = [k \in {} |-> Absent]
  /\ pc = [r \in Reqs |-> "map_fetch"]
  /\ calls = [r \in Reqs |-> <<"meta">>]
  /\ anilistData = [r \in Reqs |-> NoMedia]
  /\ searchTitle = [r \in Reqs |-> None]
  /\ similarTitles = [r \in Reqs |-> <<>>]
  /\ selectedMatch = [r \in Reqs |-> 0]
  /\ mapResult = [r \in Reqs |-> NoResult]
  /\ mapError = [r \in Reqs |-> NoError]

SpecResolveTwice == InitResolveTwice /\ [][NextResolve]_vars

\* ------------------------------------------------------------------------
\* Claims about repeated resolution (checked under SpecResolveTwice)
\* ------------------------------------------------------------------------

\* Two calls whose requests ended the same way have the same outcome (the
\* same id or the same error) from the same ranked list, and a call that
\* returns an id has issued its own metadata fetch and its own search.
SameOutcomes ==
  /\ \A r1, r2 \in Reqs :
       (pc[r1] = "map_done" /\ pc[r2] = "map_done" /\ calls[r1] = calls[r2])
         => /\ mapResult[r1] = mapResult[r2]
            /\ mapError[r1] = mapError[r2]
            /\ similarTitles[r1] = similarTitles[r2]
            /\ selectedMatch[r1] = selectedMatch[r2]
  /\ \A r \in Reqs :
       mapResult[r].ok => calls[r] = <<"meta", "meta_ok", "search", "search_ok">>

\* A step taken by one call changes none of the other call's locals, its
\* position, its calls or its outcome, and no step changes the metadata
\* record or the search page.
OwnStateOnly ==
  /\ UNCHANGED <<world, cache>>
  /\ \A r \in Reqs :
       pc'[r] = pc[r]
         => /\ calls'[r] = calls[r]
            /\ anilistData'[r] = anilistData[r]
            /\ searchTitle'[r] = searchTitle[r]
            /\ similarTitles'[r] = similarTitles[r]
            /\ selectedMatch'[r] = selectedMatch[r]
            /\ mapResult'[r] = mapResult[r]
            /\ mapError'[r] = mapError[r]

C20_SelfSimilarityMaximal ==
  \A r \in Reqs :
    Ranked(r)
      => \A i \in 1..Len(similarTitles[r]) :
           /\ similarTitles[r][i].similarity \in 0..1000
           /\ similarTitles[r][i].title = searchTitle[r].val
                => similarTitles[r][i].similarity = 1000

\* ------------------------------------------------------------------------
\* Claims about what a cache hit and a cache write involve (checked under
\* Spec)
\* ------------------------------------------------------------------------

\* C21: a request whose cache read returned a stored response has answered
\* exactly that response, has issued no call but the cache read (no metadata
\* fetch, search, episode fetch or extractor call) and no cache write; and a
\* request of a caching handler that entered the resolver had read a miss.
C21_HitShortCircuits ==
  \A r \in Reqs :
    /\ cachedData[r].kind = "data"
         => /\ pc[r] = "done"
            /\ response[r] = OkResponse(cachedData[r].data)
            /\ calls[r] = <<"cache_get">>
            /\ writeState[r] = "none"
            /\ mapResult[r] = NoResult
    /\ (handler[r] \in {"info", "servers", "sources"} /\ Contains(calls[r], "meta"))
         => /\ Missed(r)
            /\ SubSeq(calls[r], 1, 2) = <<"cache_get", "meta">>

\* C21 witness: one request went through the resolver and stored its
\* response, the other was answered that response from the cache with the
\* cache read as its only call.
C21_Witness ==
  \E r1, r2 \in Reqs :
    /\ writeState[r1] = "stored" /\ Contains(calls[r1], "search_ok")
    /\ cachedData[r2].kind = "data"
    /\ calls[r2] = <<"cache_get">>
    /\ response[r2] = OkResponse(response[r1].body)
    /\ response[r2].body # <<>>

\* C22 (as stated): a request that has issued a cache write has had its
\* resolution, its episode-list fetch and its extractor call succeed.
C22_WriteOnlyAfterSuccess ==
  \A r \in Reqs :
    writeState[r] # "none"
      => /\ mapResult[r].ok
         /\ ~Contains(calls[r], "episodes_err")
         /\ ~ExtractorThrew(r)
         /\ ~Contains(calls[r], "extract_nothing")
         /\ ~Contains(calls[r], "extract_info_nothing")

====
